---- MODULE Spec2Model ----
(***************************************************************************)
(* SHiP-RRIP+ last-level-cache replacement policy (src/new_policy.cc), and *)
(* the baseline SHiP-RRIP policy it was derived from                       *)
(* (src/015_ship_rrip__signature_based_hit_predictor_with_srrip.cc), whose *)
(* operations carry the prefix Baseline_.                                  *)
(*                                                                         *)
(* The policy is a synchronous state machine: the host simulator calls     *)
(* InitReplacementState once, GetVictimInSet when it needs a victim way,   *)
(* and UpdateReplacementState after every access.  NUM_CORE is 1, so the   *)
(* cpu index of the per-line arrays is always 0 and is left out.           *)
(***************************************************************************)
EXTENDS Integers, FiniteSets, Sequences, TLC

\* ------------------------------------------------------------------------
\* Build-time configuration (new_policy.cc lines 6-19)
\* ------------------------------------------------------------------------
NUM_CORE == 1

LLC_SETS == NUM_CORE * 2048

LLC_WAYS == 16

RRPV_BITS == 3

MAX_RRPV == (2 ^ RRPV_BITS) - 1

SHCT_SIZE == 1024

SHCT_MAX == 7

SHCT_INIT == 4

THRESHOLD == SHCT_INIT

SIGN_SHIFT == 4

\* Number of find-or-age attempts of the canonical selector's for loop.
AGING_ATTEMPTS == 2

\* Widths of the C++ integer types that hold the state.
UINT8 == 256

UINT16 == 65536

\* ------------------------------------------------------------------------
\* Bounds of the exploration (inputs of the host, not program constants)
\* ------------------------------------------------------------------------
\* Ways below FreeWays are accessed by the host in any order, hit or miss.
\* The other ways are only installed into when the selector returned them.
FreeWays == 1

\* Caps on the two statistics counters, which the code never bounds.
MaxHits == 2

MaxMisses == 17

\* The sets whose lines are modelled: the first and the last of the LLC_SETS
\* sets.
Sets == {0, LLC_SETS - 1}

\* The sets the host of Spec addresses; the other one stays as init left it.
HotSets == {CHOOSE s \in Sets : \A t \in Sets : s <= t}

Ways == 0 .. (LLC_WAYS - 1)

\* PCs of the accesses to the free ways: signature 0 and signature 1.
PCs == {0, 16}

\* PC of the accesses installed into the ways at or above FreeWays.
BulkPCs == {32}

\* The highest value given to the PC bits above the signature field.
SigHigh == 131071

\* PCs of the signature check: every combination of low bits (all clear, all
\* set), signature field (lowest, next, highest) and bits above the field
\* (clear, lowest set, all set up to bit 30).
SigPCs ==
    {lo + (2 ^ SIGN_SHIFT) * f + (2 ^ SIGN_SHIFT) * SHCT_SIZE * hi :
        lo \in {0, (2 ^ SIGN_SHIFT) - 1},
        f \in {0, 1, SHCT_SIZE - 1},
        hi \in {0, 1, SigHigh}}

\* Misses of the signature check.
SigMisses == 5

\* Signatures on offer to the end-to-end scenario beyond the LLC_WAYS its
\* fill needs.
ScenExtra == 1

\* Largest step between the signatures of two successive fills of the scenario.
ScenGap == 2

\* PCs of the end-to-end scenario: one per signature 0 .. LLC_WAYS + ScenExtra.
ScenPCs == {16 * k : k \in 0 .. (LLC_WAYS + ScenExtra)}


VARIABLES repl_rrpv, repl_sig, repl_reused, SHCT, stat_hits, stat_misses, last

vars == <<repl_rrpv, repl_sig, repl_reused, SHCT, stat_hits, stat_misses, last>>

\* ------------------------------------------------------------------------
\* Helpers
\* ------------------------------------------------------------------------
\* Variant of sat_inc: the increment without its `c < max_v` guard.
sat_inc_Unguarded(c, max_v) == (c + 1) % UINT8

\* sat_inc / sat_dec on a uint8_t counter.
sat_inc(c, max_v) == IF c < max_v THEN (c + 1) % UINT8 ELSE c

sat_dec(c) == IF c > 0 THEN c - 1 ELSE c

\* a & b on unsigned integers, bit by bit from the low end.
RECURSIVE BitAnd(_, _)
BitAnd(a, b) ==
    IF a = 0 \/ b = 0 THEN 0
    ELSE (a % 2) * (b % 2) + 2 * BitAnd(a \div 2, b \div 2)

\* a >> n on an unsigned integer.
ShiftRight(a, n) == a \div (2 ^ n)

\* Variant of Signature: one bit less discarded.
Signature_ShiftOff(PC) == BitAnd(ShiftRight(PC, SIGN_SHIFT - 1), SHCT_SIZE - 1)

\* (uint32_t)(PC >> SIGN_SHIFT) & (SHCT_SIZE - 1).  The cast keeps the low 32
\* bits of the shifted value; the modelled PCs are below 2^31, where it keeps
\* every bit.
Signature(PC) == BitAnd(ShiftRight(PC, SIGN_SHIFT), SHCT_SIZE - 1)

\* line_sig & (SHCT_SIZE - 1) on a uint16_t.
MaskSig(sig) == BitAnd(sig % UINT16, SHCT_SIZE - 1)

\* The SHCT entries the modelled accesses can index: the signatures of the
\* modelled PCs, and 0, the signature every line holds after init.  The other
\* entries of the SHCT_SIZE-entry table are never read or written under these
\* inputs and stay at SHCT_INIT.
Sigs == {Signature(PC) : PC \in PCs \cup BulkPCs \cup ScenPCs \cup SigPCs} \cup {0}

\* The scan `for w: if rrpv[w] == MAX_RRPV return w`: the lowest way at
\* MAX_RRPV, or LLC_WAYS when the scan runs to its end.
ScanMax(r) ==
    IF \E w \in Ways : r[w] = MAX_RRPV
    THEN CHOOSE w \in Ways : r[w] = MAX_RRPV /\ \A v \in Ways : v < w => r[v] # MAX_RRPV
    ELSE LLC_WAYS

\* First-attempt aging: +1 on every line below MAX_RRPV.
AgeOne(r) == [w \in Ways |-> IF r[w] < MAX_RRPV THEN (r[w] + 1) % UINT8 ELSE r[w]]

\* Variant of AgeTwo: +2 without the clamp at MAX_RRPV.
AgeTwo_Unclamped(r) ==
    [w \in Ways |-> IF r[w] < MAX_RRPV THEN (r[w] + 2) % UINT8 ELSE r[w]]

\* Second-attempt aging: +2 clamped at MAX_RRPV on every line below MAX_RRPV.
AgeTwo(r) ==
    [w \in Ways |-> IF r[w] < MAX_RRPV
                    THEN (IF r[w] + 2 > MAX_RRPV THEN MAX_RRPV ELSE r[w] + 2)
                    ELSE r[w]]

\* Variant of VictimLoop: the fallback returns the not-found value LLC_WAYS.
RECURSIVE VictimLoop_FallbackWays(_, _)
VictimLoop_FallbackWays(r, attempt) ==
    IF attempt >= AGING_ATTEMPTS
    THEN [ret |-> LLC_WAYS, rrpv |-> r, exit |-> "fallback"]
    ELSE IF ScanMax(r) < LLC_WAYS
         THEN [ret |-> ScanMax(r), rrpv |-> r, exit |-> "scan"]
         ELSE VictimLoop_FallbackWays(IF attempt = 0 THEN AgeOne(r) ELSE AgeTwo(r),
                                      attempt + 1)

\* The body of GetVictimInSet from attempt `attempt` on, on the set's rrpv
\* row r: the way returned, the row left behind, and the exit taken.
RECURSIVE VictimLoop(_, _)
VictimLoop(r, attempt) ==
    IF attempt >= AGING_ATTEMPTS
    THEN [ret |-> 0, rrpv |-> r, exit |-> "fallback"]
    ELSE IF ScanMax(r) < LLC_WAYS
         THEN [ret |-> ScanMax(r), rrpv |-> r, exit |-> "scan"]
         ELSE VictimLoop(IF attempt = 0 THEN AgeOne(r) ELSE AgeTwo(r), attempt + 1)

\* Variant of InsertRRPV: the baseline's two tiers (0 at or above THRESHOLD,
\* MAX_RRPV - 1 below it).
InsertRRPV_TwoTier(pred) == IF pred >= THRESHOLD THEN 0 ELSE MAX_RRPV - 1

\* Variant of InsertRRPV: the near-MRU tier tested with > instead of >=.
InsertRRPV_StrictThreshold(pred) ==
    IF pred >= (THRESHOLD + 2) % UINT8 THEN 0
    ELSE IF pred > THRESHOLD % UINT8 THEN 1
    ELSE IF pred > 0 THEN (IF MAX_RRPV >= 2 THEN MAX_RRPV - 1 ELSE MAX_RRPV)
    ELSE MAX_RRPV

\* Variant of InsertRRPV: without the weak tier, every entry below THRESHOLD
\* installs at MAX_RRPV.
InsertRRPV_NoWeakTier(pred) ==
    IF pred >= (THRESHOLD + 2) % UINT8 THEN 0
    ELSE IF pred >= THRESHOLD % UINT8 THEN 1
    ELSE MAX_RRPV

\* Insertion RRPV by confidence tier (new_policy.cc lines 147-157).
InsertRRPV(pred) ==
    IF pred >= (THRESHOLD + 2) % UINT8 THEN 0
    ELSE IF pred >= THRESHOLD % UINT8 THEN 1
    ELSE IF pred > 0 THEN (IF MAX_RRPV >= 2 THEN MAX_RRPV - 1 ELSE MAX_RRPV)
    ELSE MAX_RRPV

\* Variant of EvictSHCT: the reused and not-reused branches exchanged.
EvictSHCT_Swapped(shct, old_sig, reused) ==
    IF old_sig < SHCT_SIZE
    THEN [shct EXCEPT ![old_sig] = IF reused # 0 THEN sat_dec(shct[old_sig])
                                                 ELSE sat_inc(shct[old_sig], SHCT_MAX)]
    ELSE shct

\* SHCT after the eviction-time learning step on the outgoing occupant.
EvictSHCT(shct, old_sig, reused) ==
    IF old_sig < SHCT_SIZE
    THEN [shct EXCEPT ![old_sig] = IF reused # 0 THEN sat_inc(shct[old_sig], SHCT_MAX)
                                                 ELSE sat_dec(shct[old_sig])]
    ELSE shct

\* Variant of HitSHCT: the baseline's hit path, which leaves the SHCT alone.
HitSHCT_None(shct, sig) == shct

\* SHCT after the hit-time reinforcement of the line's stored signature.
HitSHCT(shct, sig) ==
    IF sig < SHCT_SIZE THEN [shct EXCEPT ![sig] = sat_inc(shct[sig], SHCT_MAX)] ELSE shct

\* What the host observed of the latest call: the call and its arguments, the
\* way and exit of a GetVictimInSet, and for an update the touched line's
\* stored signature and reused flag and the SHCT entry it consults (the stored
\* signature's on a hit, the incoming signature's on a miss) as they were when
\* the call was made.  For InitReplacementState, prior is the number of
\* accesses the counters held when it was called.  For the baseline's
\* GetVictimInSet, passes is the number of aging passes the call made.
NoCall == [op |-> "init", set |-> 0, way |-> 0, pc |-> 0, ret |-> 0, exit |-> "none",
           osig |-> 0, oreused |-> 0, pred0 |-> 0, prior |-> 0, passes |-> 0]

\* ------------------------------------------------------------------------
\* Operations
\* ------------------------------------------------------------------------
\* Variant of InitReplacementState: the statistics counters are not reset.
InitReplacementState_KeepsStats ==
    /\ repl_rrpv' = [s \in Sets |-> [w \in Ways |-> MAX_RRPV]]
    /\ repl_sig' = [s \in Sets |-> [w \in Ways |-> 0]]
    /\ repl_reused' = [s \in Sets |-> [w \in Ways |-> 0]]
    /\ SHCT' = [i \in Sigs |-> SHCT_INIT]
    /\ last' = [NoCall EXCEPT !.prior = stat_hits + stat_misses]
    /\ UNCHANGED <<stat_hits, stat_misses>>

InitReplacementState ==
    /\ stat_hits' = 0
    /\ stat_misses' = 0
    /\ repl_rrpv' = [s \in Sets |-> [w \in Ways |-> MAX_RRPV]]
    /\ repl_sig' = [s \in Sets |-> [w \in Ways |-> 0]]
    /\ repl_reused' = [s \in Sets |-> [w \in Ways |-> 0]]
    /\ SHCT' = [i \in Sigs |-> SHCT_INIT]
    /\ last' = [NoCall EXCEPT !.prior = stat_hits + stat_misses]

\* Variant of GetVictimInSet: the aged row is written without the set index,
\* into every set.
GetVictimInSet_WritesAllSets(set) ==
    LET res == VictimLoop(repl_rrpv[set], 0) IN
    /\ repl_rrpv' = [s \in Sets |-> res.rrpv]
    /\ last' = [NoCall EXCEPT !.op = "victim", !.set = set, !.ret = res.ret,
                              !.exit = res.exit]
    /\ UNCHANGED <<repl_sig, repl_reused, SHCT, stat_hits, stat_misses>>

GetVictimInSet(set) ==
    LET res == VictimLoop(repl_rrpv[set], 0) IN
    /\ repl_rrpv' = [repl_rrpv EXCEPT ![set] = res.rrpv]
    /\ last' = [NoCall EXCEPT !.op = "victim", !.set = set, !.ret = res.ret,
                              !.exit = res.exit]
    /\ UNCHANGED <<repl_sig, repl_reused, SHCT, stat_hits, stat_misses>>

\* Variant of UpdateHit: the miss counter is bumped before the hit test, so a
\* hit counts as a miss too.
UpdateHit_CountsMiss(set, way) ==
    LET sig == MaskSig(repl_sig[set][way]) IN
    /\ stat_hits' = stat_hits + 1
    /\ stat_misses' = stat_misses + 1
    /\ repl_reused' = [repl_reused EXCEPT ![set][way] = 1]
    /\ repl_rrpv' = [repl_rrpv EXCEPT ![set][way] = 0]
    /\ SHCT' = HitSHCT(SHCT, sig)
    /\ last' = [NoCall EXCEPT !.op = "hit", !.set = set, !.way = way,
                              !.osig = repl_sig[set][way],
                              !.oreused = repl_reused[set][way],
                              !.pred0 = SHCT[sig]]
    /\ UNCHANGED repl_sig

UpdateHit(set, way) ==
    LET sig == MaskSig(repl_sig[set][way]) IN
    /\ stat_hits' = stat_hits + 1
    /\ repl_reused' = [repl_reused EXCEPT ![set][way] = 1]
    /\ repl_rrpv' = [repl_rrpv EXCEPT ![set][way] = 0]
    /\ SHCT' = HitSHCT(SHCT, sig)
    /\ last' = [NoCall EXCEPT !.op = "hit", !.set = set, !.way = way,
                              !.osig = repl_sig[set][way],
                              !.oreused = repl_reused[set][way],
                              !.pred0 = SHCT[sig]]
    /\ UNCHANGED <<repl_sig, stat_misses>>

\* Variant of UpdateMiss: the reuse bit is left as the evicted block had it.
UpdateMiss_KeepsReused(set, way, PC) ==
    LET old_sig == MaskSig(repl_sig[set][way])
        shct1 == EvictSHCT(SHCT, old_sig, repl_reused[set][way])
        newsig == Signature(PC)
        pred == shct1[newsig]
    IN
    /\ stat_misses' = stat_misses + 1
    /\ SHCT' = shct1
    /\ repl_sig' = [repl_sig EXCEPT ![set][way] = newsig]
    /\ repl_rrpv' = [repl_rrpv EXCEPT ![set][way] = InsertRRPV(pred)]
    /\ last' = [NoCall EXCEPT !.op = "miss", !.set = set, !.way = way, !.pc = PC,
                              !.osig = repl_sig[set][way],
                              !.oreused = repl_reused[set][way],
                              !.pred0 = SHCT[newsig]]
    /\ UNCHANGED <<stat_hits, repl_reused>>

\* Variant of UpdateMiss: the reuse bits of the whole set are reset.
UpdateMiss_ClearsSetReused(set, way, PC) ==
    LET old_sig == MaskSig(repl_sig[set][way])
        shct1 == EvictSHCT(SHCT, old_sig, repl_reused[set][way])
        newsig == Signature(PC)
        pred == shct1[newsig]
    IN
    /\ stat_misses' = stat_misses + 1
    /\ SHCT' = shct1
    /\ repl_sig' = [repl_sig EXCEPT ![set][way] = newsig]
    /\ repl_reused' = [repl_reused EXCEPT ![set] = [w \in Ways |-> 0]]
    /\ repl_rrpv' = [repl_rrpv EXCEPT ![set][way] = InsertRRPV(pred)]
    /\ last' = [NoCall EXCEPT !.op = "miss", !.set = set, !.way = way, !.pc = PC,
                              !.osig = repl_sig[set][way],
                              !.oreused = repl_reused[set][way],
                              !.pred0 = SHCT[newsig]]
    /\ UNCHANGED stat_hits

UpdateMiss(set, way, PC) ==
    LET old_sig == MaskSig(repl_sig[set][way])
        shct1 == EvictSHCT(SHCT, old_sig, repl_reused[set][way])
        newsig == Signature(PC)
        pred == shct1[newsig]
    IN
    /\ stat_misses' = stat_misses + 1
    /\ SHCT' = shct1
    /\ repl_sig' = [repl_sig EXCEPT ![set][way] = newsig]
    /\ repl_reused' = [repl_reused EXCEPT ![set][way] = 0]
    /\ repl_rrpv' = [repl_rrpv EXCEPT ![set][way] = InsertRRPV(pred)]
    /\ last' = [NoCall EXCEPT !.op = "miss", !.set = set, !.way = way, !.pc = PC,
                              !.osig = repl_sig[set][way],
                              !.oreused = repl_reused[set][way],
                              !.pred0 = SHCT[newsig]]
    /\ UNCHANGED stat_hits

UpdateReplacementState(set, way, PC, hit) ==
    IF hit # 0 THEN UpdateHit(set, way) ELSE UpdateMiss(set, way, PC)

\* ------------------------------------------------------------------------
\* The host: any sequence of calls within the bounds
\* ------------------------------------------------------------------------
\* The state InitReplacementState leaves, which the host sets up first.
Init ==
    /\ stat_hits = 0
    /\ stat_misses = 0
    /\ repl_rrpv = [s \in Sets |-> [w \in Ways |-> MAX_RRPV]]
    /\ repl_sig = [s \in Sets |-> [w \in Ways |-> 0]]
    /\ repl_reused = [s \in Sets |-> [w \in Ways |-> 0]]
    /\ SHCT = [i \in Sigs |-> SHCT_INIT]
    /\ last = NoCall

\* The ways the host may install into: the free ways, and the victim just
\* returned for this set.
MissWays(set) ==
    {w \in Ways : w < FreeWays}
        \cup (IF last.op = "victim" /\ last.set = set THEN {last.ret} ELSE {})

HitWays(set) == {w \in Ways : w < FreeWays}

MissPCs(way) == IF way < FreeWays THEN PCs ELSE BulkPCs

HostInit ==
    /\ last.op # "init"
    /\ InitReplacementState

HostVictim == \E set \in HotSets : GetVictimInSet(set)

HostHit ==
    /\ stat_hits < MaxHits
    /\ \E set \in HotSets : \E way \in HitWays(set) : UpdateReplacementState(set, way, 0, 1)

HostMiss ==
    /\ stat_misses < MaxMisses
    /\ \E set \in HotSets : \E way \in MissWays(set) : \E PC \in MissPCs(way) :
          UpdateReplacementState(set, way, PC, 0)

Next == HostInit \/ HostVictim \/ HostHit \/ HostMiss

Spec == Init /\ [][Next]_vars

\* ------------------------------------------------------------------------
\* The end-to-end scenario: fill one set, hit way 0, select, evict
\* ------------------------------------------------------------------------
ScenSet == CHOOSE s \in Sets : \A t \in Sets : s <= t

\* The n-th fill takes a signature that keeps the signatures of ways 0 .. n
\* strictly monotone (rising or falling) with steps of at most ScenGap, hence
\* pairwise distinct.
ScenDistinct(n, sig) ==
    LET row == repl_sig[ScenSet]
        up(a, b) == a < b /\ b - a <= ScenGap
    IN  IF n = 0 THEN TRUE
        ELSE IF n = 1 THEN up(row[0], sig) \/ up(sig, row[0])
        ELSE \/ row[n - 2] < row[n - 1] /\ up(row[n - 1], sig)
             \/ row[n - 2] > row[n - 1] /\ up(sig, row[n - 1])

ScenFill ==
    /\ stat_hits = 0
    /\ stat_misses < LLC_WAYS
    /\ \E PC \in ScenPCs :
          /\ ScenDistinct(stat_misses, Signature(PC))
          /\ UpdateReplacementState(ScenSet, stat_misses, PC, 0)

ScenHit ==
    /\ stat_hits = 0
    /\ stat_misses = LLC_WAYS
    /\ UpdateReplacementState(ScenSet, 0, 0, 1)

ScenVictim ==
    /\ last.op = "hit"
    /\ GetVictimInSet(ScenSet)

ScenEvict ==
    /\ last.op = "victim"
    /\ \E PC \in ScenPCs : UpdateReplacementState(ScenSet, last.ret, PC, 0)

ScenNext == ScenFill \/ ScenHit \/ ScenVictim \/ ScenEvict

SpecScenario == Init /\ [][ScenNext]_vars

\* ------------------------------------------------------------------------
\* The install protocol on two sets: every miss update goes to the way the
\* immediately preceding GetVictimInSet returned for the same set
\* ------------------------------------------------------------------------
\* The way whose accesses vary: it is the one the host hits, and installs
\* into it take any PC of PCs; installs into the other ways take BulkPCs.
ProtoHotWay == CHOOSE w \in Ways : \A v \in Ways : w <= v

ProtoPCs(way) == IF way = ProtoHotWay THEN PCs ELSE BulkPCs

ProtoVictim ==
    /\ last.op # "victim"
    /\ \E set \in Sets : GetVictimInSet(set)

ProtoMiss ==
    /\ last.op = "victim"
    /\ stat_misses < MaxMisses
    /\ \E PC \in ProtoPCs(last.ret) : UpdateReplacementState(last.set, last.ret, PC, 0)

ProtoHit ==
    /\ last.op # "victim"
    /\ stat_hits < MaxHits
    /\ \E set \in Sets : UpdateReplacementState(set, ProtoHotWay, 0, 1)

ProtoNext == ProtoVictim \/ ProtoMiss \/ ProtoHit

SpecProtocol == Init /\ [][ProtoNext]_vars

\* ------------------------------------------------------------------------
\* The baseline policy (015_ship_rrip__signature_based_hit_predictor_with_srrip.cc)
\* ------------------------------------------------------------------------
\* Misses of the baseline check.
BaseMisses == 2

\* Rows of in-range rrpv values the baseline check starts from: the ways
\* below a cut hold one value and the ways from the cut on another, for
\* every cut and every pair of values.
BaseRows ==
    {[w \in Ways |-> IF w < cut THEN lo ELSE hi] :
        lo \in 0 .. MAX_RRPV, hi \in 0 .. MAX_RRPV, cut \in 0 .. LLC_WAYS}

\* The scan of the while loop: the lowest way at MAX_RRPV, or LLC_WAYS when
\* the scan runs to its end.
Baseline_Scan(r) ==
    IF \E w \in Ways : r[w] = MAX_RRPV
    THEN CHOOSE w \in Ways : r[w] = MAX_RRPV /\ \A v \in Ways : v < w => r[v] # MAX_RRPV
    ELSE LLC_WAYS

\* Variant of Baseline_AgeAll: +2 without the clamp at MAX_RRPV.
Baseline_AgeAll_ByTwo(r) ==
    [w \in Ways |-> IF r[w] < MAX_RRPV THEN (r[w] + 2) % UINT8 ELSE r[w]]

\* The aging of the while loop: ++ on every line below MAX_RRPV.
Baseline_AgeAll(r) ==
    [w \in Ways |-> IF r[w] < MAX_RRPV THEN (r[w] + 1) % UINT8 ELSE r[w]]

\* while (true) { scan; age }.  The loop has no bound of its own; it is
\* followed for MAX_RRPV + 1 passes, and a call still in the loop then is
\* reported with exit "running".
RECURSIVE Baseline_VictimLoop(_, _)
Baseline_VictimLoop(r, passes) ==
    LET w == Baseline_Scan(r) IN
    IF w < LLC_WAYS
    THEN [ret |-> w, rrpv |-> r, passes |-> passes, exit |-> "scan"]
    ELSE IF passes > MAX_RRPV
         THEN [ret |-> 0, rrpv |-> r, passes |-> passes, exit |-> "running"]
         ELSE Baseline_VictimLoop(Baseline_AgeAll(r), passes + 1)

Baseline_GetVictimInSet(set) ==
    LET res == Baseline_VictimLoop(repl_rrpv[set], 0) IN
    /\ repl_rrpv' = [repl_rrpv EXCEPT ![set] = res.rrpv]
    /\ last' = [NoCall EXCEPT !.op = "victim", !.set = set, !.ret = res.ret,
                              !.exit = res.exit, !.passes = res.passes]
    /\ UNCHANGED <<repl_sig, repl_reused, SHCT, stat_hits, stat_misses>>

\* if (hit) { stat_hits++; reused = 1; rrpv = 0; return; }
Baseline_UpdateHit(set, way) ==
    /\ stat_hits' = stat_hits + 1
    /\ repl_reused' = [repl_reused EXCEPT ![set][way] = 1]
    /\ repl_rrpv' = [repl_rrpv EXCEPT ![set][way] = 0]
    /\ last' = [NoCall EXCEPT !.op = "hit", !.set = set, !.way = way,
                              !.osig = repl_sig[set][way],
                              !.oreused = repl_reused[set][way],
                              !.pred0 = SHCT[repl_sig[set][way]]]
    /\ UNCHANGED <<repl_sig, SHCT, stat_misses>>

\* The miss path: count, train the outgoing (unmasked) signature's counter,
\* store the incoming signature, clear reused, insert at 0 when the incoming
\* signature's counter is at THRESHOLD or above and at MAX_RRPV - 1 otherwise.
Baseline_UpdateMiss(set, way, PC) ==
    LET old_sig == repl_sig[set][way]
        old_r == repl_reused[set][way]
        shct1 == IF old_r # 0
                 THEN IF SHCT[old_sig] < SHCT_MAX
                      THEN [SHCT EXCEPT ![old_sig] = (@ + 1) % UINT8] ELSE SHCT
                 ELSE IF SHCT[old_sig] > 0
                      THEN [SHCT EXCEPT ![old_sig] = @ - 1] ELSE SHCT
        newsig == Signature(PC)
    IN
    /\ stat_misses' = stat_misses + 1
    /\ SHCT' = shct1
    /\ repl_sig' = [repl_sig EXCEPT ![set][way] = newsig]
    /\ repl_reused' = [repl_reused EXCEPT ![set][way] = 0]
    /\ repl_rrpv' = [repl_rrpv EXCEPT ![set][way] =
                        IF shct1[newsig] >= THRESHOLD THEN 0 ELSE MAX_RRPV - 1]
    /\ last' = [NoCall EXCEPT !.op = "miss", !.set = set, !.way = way, !.pc = PC,
                              !.osig = old_sig, !.oreused = old_r,
                              !.pred0 = SHCT[newsig]]
    /\ UNCHANGED stat_hits

Baseline_UpdateReplacementState(set, way, PC, hit) ==
    IF hit # 0 THEN Baseline_UpdateHit(set, way) ELSE Baseline_UpdateMiss(set, way, PC)

\* The state the baseline's InitReplacementState leaves, with the rrpv row of
\* the addressed set replaced by a row of BaseRows.
BaseInit ==
    /\ stat_hits = 0
    /\ stat_misses = 0
    /\ \E row \in BaseRows :
          repl_rrpv = [s \in Sets |-> IF s \in HotSets THEN row
                                      ELSE [w \in Ways |-> MAX_RRPV]]
    /\ repl_sig = [s \in Sets |-> [w \in Ways |-> 0]]
    /\ repl_reused = [s \in Sets |-> [w \in Ways |-> 0]]
    /\ SHCT = [i \in Sigs |-> SHCT_INIT]
    /\ last = NoCall

BaseVictim ==
    /\ last.op # "victim"
    /\ \E set \in HotSets : Baseline_GetVictimInSet(set)

BaseMiss ==
    /\ last.op = "victim"
    /\ stat_misses < BaseMisses
    /\ \E PC \in PCs : Baseline_UpdateReplacementState(last.set, last.ret, PC, 0)

BaseHit ==
    /\ last.op # "victim"
    /\ stat_hits < MaxHits
    /\ \E set \in HotSets : Baseline_UpdateReplacementState(set, ProtoHotWay, 0, 1)

BaseNext == BaseVictim \/ BaseMiss \/ BaseHit

SpecBaseline == BaseInit /\ [][BaseNext]_vars

\* ------------------------------------------------------------------------
\* The signature check: protocol installs with the PCs of SigPCs
\* ------------------------------------------------------------------------
SigVictim ==
    /\ last.op # "victim"
    /\ \E set \in HotSets : GetVictimInSet(set)

SigMiss ==
    /\ last.op = "victim"
    /\ stat_misses < SigMisses
    /\ \E PC \in SigPCs : UpdateReplacementState(last.set, last.ret, PC, 0)

SigNext == SigVictim \/ SigMiss

SpecSignature == Init /\ [][SigNext]_vars

\* ------------------------------------------------------------------------
\* Properties
\* ------------------------------------------------------------------------
Min(a, b) == IF a < b THEN a ELSE b

Max(a, b) == IF a > b THEN a ELSE b

\* The step is a GetVictimInSet, a hit update, a miss update.
VictimStep == last'.op = "victim"

HitStep == last'.op = "hit"

MissStep == last'.op = "miss"

\* C1: after GetVictimInSet returns, the returned way is a line of the set
\* whose rrpv is MAX_RRPV (so the set holds at least one such line).
C1_VictimAtMax ==
    last.op = "victim" => repl_rrpv[last.set][last.ret] = MAX_RRPV

\* C2: GetVictimInSet returns the lowest-index way at MAX_RRPV: of the row at
\* entry when it holds one, else of the row after the +1 pass when that holds
\* one, else of the row after the further +2 pass when that holds one.
C2_VictimLowestMax ==
    [][\A set \in Sets :
         (VictimStep /\ last'.set = set) =>
            LET r0 == repl_rrpv[set]
                r1 == AgeOne(r0)
                r2 == AgeTwo(r1)
            IN  IF ScanMax(r0) < LLC_WAYS THEN last'.ret = ScanMax(r0)
                ELSE IF ScanMax(r1) < LLC_WAYS THEN last'.ret = ScanMax(r1)
                ELSE ScanMax(r2) < LLC_WAYS => last'.ret = ScanMax(r2)]_vars

\* C3: GetVictimInSet returns a way index w with 0 <= w < LLC_WAYS.
C3_VictimInRange ==
    last.op = "victim" => (last.ret >= 0 /\ last.ret < LLC_WAYS)

\* C3 witness: a call that ran through both aging passes has returned.
C3_Witness == last.op = "victim" /\ last.exit = "fallback"

\* C4: every SHCT entry stays within 0 .. SHCT_MAX and every line's rrpv
\* within 0 .. MAX_RRPV, whatever calls the host makes.
C4_CounterBounds ==
    /\ \A i \in DOMAIN SHCT : SHCT[i] >= 0 /\ SHCT[i] <= SHCT_MAX
    /\ \A s \in Sets : \A w \in Ways : repl_rrpv[s][w] >= 0 /\ repl_rrpv[s][w] <= MAX_RRPV

\* C4 witness: a miss evicted a reused line whose signature's entry was
\* already at SHCT_MAX, and the entry is still at SHCT_MAX.
C4_Witness ==
    /\ last.op = "miss"
    /\ last.oreused = 1
    /\ last.osig = Signature(last.pc)
    /\ last.pred0 = SHCT_MAX
    /\ SHCT[last.osig] = SHCT_MAX

\* C5: a hit update on way w leaves rrpv[w] = 0 and reused[w] = 1, keeps the
\* line's stored signature, and moves the SHCT entry of that signature to
\* min(old + 1, SHCT_MAX).
C5_HitPromotes ==
    [][\A set \in Sets : \A way \in Ways :
         (HitStep /\ last'.set = set /\ last'.way = way) =>
            /\ repl_rrpv'[set][way] = 0
            /\ repl_reused'[set][way] = 1
            /\ repl_sig'[set][way] = repl_sig[set][way]
            /\ SHCT'[repl_sig[set][way]] = Min(SHCT[repl_sig[set][way]] + 1, SHCT_MAX)]_vars

\* C5 witness: a hit has raised its signature's entry by one.
C5_Witness ==
    /\ last.op = "hit"
    /\ repl_rrpv[last.set][last.way] = 0
    /\ SHCT[last.osig] = last.pred0 + 1

\* C6: a miss update on a way whose outgoing occupant has stored signature S
\* moves SHCT[S] to min(old + 1, SHCT_MAX) when the occupant's reused flag is
\* 1 and to max(old - 1, 0) when it is 0: non-decreasing and strictly up
\* below SHCT_MAX in the first case, non-increasing and strictly down above 0
\* in the second.
C6_EvictionLearns ==
    [][\A set \in Sets : \A way \in Ways :
         (MissStep /\ last'.set = set /\ last'.way = way) =>
            LET S == repl_sig[set][way]
                old == SHCT[S]
            IN  /\ repl_reused[set][way] = 1 =>
                     /\ SHCT'[S] = Min(old + 1, SHCT_MAX)
                     /\ SHCT'[S] >= old
                     /\ old < SHCT_MAX => SHCT'[S] > old
                /\ repl_reused[set][way] = 0 =>
                     /\ SHCT'[S] = Max(old - 1, 0)
                     /\ SHCT'[S] =< old
                     /\ old > 0 => SHCT'[S] < old]_vars

\* C6 witness: a miss has evicted a reused line and raised its signature's
\* entry (here the incoming signature is another one, so pred0 is not S's).
C6_Witness ==
    /\ last.op = "miss"
    /\ last.oreused = 1
    /\ Signature(last.pc) # last.osig
    /\ SHCT[last.osig] > SHCT_INIT

\* C7 as claimed: on a miss update whose PC maps to signature s, whatever the
\* outgoing occupant, SHCT[s] = 7 at the call gives an installed rrpv of 0 and
\* SHCT[s] = 0 at the call gives an installed rrpv of MAX_RRPV.
C7_InsertionTiers_Claimed ==
    [][\A set \in Sets : \A way \in Ways :
         (MissStep /\ last'.set = set /\ last'.way = way) =>
            LET s == Signature(last'.pc) IN
            /\ SHCT[s] = SHCT_MAX => repl_rrpv'[set][way] = 0
            /\ SHCT[s] = 0 => repl_rrpv'[set][way] = MAX_RRPV]_vars

\* C7 amended: SHCT[s] = 7 at the call gives an installed rrpv of 0; SHCT[s] = 0
\* at the call gives MAX_RRPV, except when the outgoing occupant's stored
\* signature is s and its reused flag is 1: the entry is then raised to 1
\* before it is read and the installed rrpv is MAX_RRPV - 1.
C7_InsertionTiers ==
    [][\A set \in Sets : \A way \in Ways :
         (MissStep /\ last'.set = set /\ last'.way = way) =>
            LET s == Signature(last'.pc)
                aliased == repl_sig[set][way] = s /\ repl_reused[set][way] = 1
            IN
            /\ SHCT[s] = SHCT_MAX => repl_rrpv'[set][way] = 0
            /\ (SHCT[s] = 0 /\ ~aliased) => repl_rrpv'[set][way] = MAX_RRPV
            /\ (SHCT[s] = 0 /\ aliased) => repl_rrpv'[set][way] = MAX_RRPV - 1]_vars

\* C7 witness: a miss found its signature's entry at 0 and evicted a reused
\* line of the same signature.
C7_Witness ==
    /\ last.op = "miss"
    /\ last.pred0 = 0
    /\ last.oreused = 1
    /\ last.osig = Signature(last.pc)

\* C8: after InitReplacementState, whatever the state before, both counters
\* are 0, every line has rrpv = MAX_RRPV, signature 0 and reused 0, and every
\* SHCT entry is SHCT_INIT.
C8_InitResets ==
    last.op = "init" =>
        /\ stat_hits = 0
        /\ stat_misses = 0
        /\ \A s \in Sets : \A w \in Ways :
              /\ repl_rrpv[s][w] = MAX_RRPV
              /\ repl_sig[s][w] = 0
              /\ repl_reused[s][w] = 0
        /\ \A i \in DOMAIN SHCT : SHCT[i] = SHCT_INIT

\* C8 witness: InitReplacementState ran on a state that had counted accesses.
C8_Witness == last.op = "init" /\ last.prior >= 3

\* The scenario's set right after its sixteenth fill, before the hit.
ScenFilled == stat_misses = LLC_WAYS /\ stat_hits = 0

\* None of the signatures the fill installed is 0.
ScenNonzero == \A w \in Ways : repl_sig[ScenSet][w] # 0

\* C9 as claimed: from init, 16 miss updates that fill ways 0 .. 15 of one set
\* with any pairwise distinct signatures leave every way at rrpv = 1; one
\* further hit update on way 0 leaves hits = 1 and rrpv[0] = 0 and takes the
\* SHCT entry of way 0's signature from 4 to 5.
C9_FillThenHit_Claimed ==
    /\ ScenFilled =>
          /\ \A w \in Ways : repl_rrpv[ScenSet][w] = 1
          /\ SHCT[repl_sig[ScenSet][0]] = SHCT_INIT
    /\ last.op = "hit" =>
          /\ stat_hits = 1
          /\ repl_rrpv[ScenSet][0] = 0
          /\ SHCT[repl_sig[ScenSet][0]] = SHCT_INIT + 1

\* C9 amended: the same, for pairwise distinct signatures none of which is 0
\* (the signature of the lines the fill evicts, whose SHCT entry every fill
\* lowers).
C9_FillThenHit ==
    ScenNonzero =>
        /\ ScenFilled =>
              /\ \A w \in Ways : repl_rrpv[ScenSet][w] = 1
              /\ SHCT[repl_sig[ScenSet][0]] = SHCT_INIT
        /\ last.op = "hit" =>
              /\ stat_hits = 1
              /\ repl_rrpv[ScenSet][0] = 0
              /\ SHCT[repl_sig[ScenSet][0]] = SHCT_INIT + 1

\* C9 witness: the hit on way 0 has followed a fill with falling nonzero
\* signatures.
C9_Witness ==
    /\ last.op = "hit"
    /\ stat_misses = LLC_WAYS
    /\ ScenNonzero
    /\ repl_sig[ScenSet][0] > repl_sig[ScenSet][1]
    /\ SHCT[repl_sig[ScenSet][0]] = SHCT_INIT + 1

\* C10: in the scenario, from way 0 at rrpv 0 and ways 1 .. 15 at rrpv 1,
\* GetVictimInSet applies the +1 and then the +2 aging pass and returns a way
\* whose rrpv is MAX_RRPV.
C10_ScenarioVictim ==
    [][(/\ VictimStep
        /\ repl_rrpv[ScenSet][0] = 0
        /\ \A w \in Ways \ {0} : repl_rrpv[ScenSet][w] = 1) =>
           /\ repl_rrpv'[ScenSet] = AgeTwo(AgeOne(repl_rrpv[ScenSet]))
           /\ repl_rrpv'[ScenSet][last'.ret] = MAX_RRPV]_vars

\* The scenario's last state: the evicting miss update has followed the hit.
ScenEnd == last.op = "miss" /\ stat_hits > 0

\* C11 as claimed: at the end of the end-to-end scenario hits = 1 and
\* misses = 1.
C11_ScenarioCounters_Claimed ==
    ScenEnd => (stat_hits = 1 /\ stat_misses = 1)

\* C11 amended: at the end of the end-to-end scenario hits = 1 and
\* misses = LLC_WAYS + 1: the 16 fills are miss updates and are counted.
C11_ScenarioCounters ==
    ScenEnd => (stat_hits = 1 /\ stat_misses = LLC_WAYS + 1)

\* C11 witness: the scenario has run to its end, the evicting miss on the
\* way the selector returned.
C11_Witness ==
    /\ ScenEnd
    /\ stat_misses = LLC_WAYS + 1
    /\ repl_reused[ScenSet][last.way] = 0

\* C12: GetVictimInSet never leaves through its final `return 0`, taken
\* after both aging passes.
C12_FallbackUnreachable ==
    last.op = "victim" => last.exit # "fallback"

\* The entry a miss update reads as pred: SHCT[newsig] after the outgoing
\* occupant (signature S, flag reused) has been learned from.
PredAfterEviction(newsig, S, reused) ==
    IF newsig # S THEN SHCT[newsig]
    ELSE IF reused = 1 THEN Min(SHCT[S] + 1, SHCT_MAX)
    ELSE Max(SHCT[S] - 1, 0)

\* C13: after a miss update the installed line has rrpv 0 if pred >= 6, 1 if
\* 4 <= pred <= 5, MAX_RRPV - 1 if 1 <= pred <= 3 and MAX_RRPV if pred = 0,
\* pred being SHCT[new signature] after the outgoing occupant's adjustment;
\* its signature is the new signature and its reused flag is 0.
C13_InstallTiers ==
    [][\A set \in Sets : \A way \in Ways :
         (MissStep /\ last'.set = set /\ last'.way = way) =>
            LET newsig == (last'.pc \div 16) % SHCT_SIZE
                pred == PredAfterEviction(newsig, repl_sig[set][way],
                                          repl_reused[set][way])
            IN  /\ pred >= 6 => repl_rrpv'[set][way] = 0
                /\ (pred >= 4 /\ pred <= 5) => repl_rrpv'[set][way] = 1
                /\ (pred >= 1 /\ pred <= 3) => repl_rrpv'[set][way] = MAX_RRPV - 1
                /\ pred = 0 => repl_rrpv'[set][way] = MAX_RRPV
                /\ repl_sig'[set][way] = newsig
                /\ repl_reused'[set][way] = 0]_vars

\* C13 witness: a miss evicted a reused line of its own signature whose entry
\* was 5, read 6 and installed at rrpv 0.
C13_Witness ==
    /\ last.op = "miss"
    /\ last.osig = repl_sig[last.set][last.way]
    /\ last.oreused = 1
    /\ last.pred0 = 5
    /\ repl_rrpv[last.set][last.way] = 0

\* Every line other than (set, way) keeps its rrpv, signature and reused flag.
OtherLinesKept(set, way) ==
    \A s \in Sets : \A w \in Ways :
        (s # set \/ w # way) =>
            /\ repl_rrpv'[s][w] = repl_rrpv[s][w]
            /\ repl_sig'[s][w] = repl_sig[s][w]
            /\ repl_reused'[s][w] = repl_reused[s][w]

\* Every SHCT entry other than sig's keeps its value.
OtherEntriesKept(sig) ==
    /\ DOMAIN SHCT' = DOMAIN SHCT
    /\ \A i \in DOMAIN SHCT : i # sig => SHCT'[i] = SHCT[i]

\* C14: GetVictimInSet(set) changes nothing but the rrpv values of the lines
\* of that set: signatures, reused flags, SHCT, hits, misses and the rrpv of
\* the lines of every other set are as before the call.
C14_VictimFrame ==
    [][\A set \in Sets :
         (VictimStep /\ last'.set = set) =>
            /\ repl_sig' = repl_sig
            /\ repl_reused' = repl_reused
            /\ SHCT' = SHCT
            /\ stat_hits' = stat_hits
            /\ stat_misses' = stat_misses
            /\ \A s \in Sets \ {set} : repl_rrpv'[s] = repl_rrpv[s]]_vars

\* C14 witness: a call on one set has returned while another set holds no
\* line at MAX_RRPV, so that aging it would show.
C14_Witness ==
    /\ last.op = "victim"
    /\ \E s \in Sets \ {last.set} : \A w \in Ways : repl_rrpv[s][w] < MAX_RRPV

\* C17: a hit update on (set, way) adds 1 to hits, leaves misses alone and
\* changes no SHCT entry but the line's stored signature's; a miss update
\* adds 1 to misses, leaves hits alone and changes no SHCT entry but the
\* outgoing occupant's signature's; both leave the rrpv, signature and reused
\* flag of every other line alone.
C17_UpdateFrame ==
    [][\A set \in Sets : \A way \in Ways :
         /\ (HitStep /\ last'.set = set /\ last'.way = way) =>
               /\ stat_hits' = stat_hits + 1
               /\ stat_misses' = stat_misses
               /\ OtherEntriesKept(repl_sig[set][way])
               /\ OtherLinesKept(set, way)
         /\ (MissStep /\ last'.set = set /\ last'.way = way) =>
               /\ stat_misses' = stat_misses + 1
               /\ stat_hits' = stat_hits
               /\ OtherEntriesKept(repl_sig[set][way])
               /\ OtherLinesKept(set, way)]_vars

\* C17 witness: a miss update has installed a signature other than the
\* outgoing one into a set that holds a reused line, with the other set
\* holding installed lines too.
C17_Witness ==
    /\ last.op = "miss"
    /\ last.osig # repl_sig[last.set][last.way]
    /\ \E w \in Ways \ {last.way} : repl_reused[last.set][w] = 1
    /\ \E s \in Sets \ {last.set} : \E w \in Ways : repl_rrpv[s][w] < MAX_RRPV

\* C18: reused[w] = 1 exactly when a hit update has been applied to the line
\* since its latest miss update (or since init), stated step by step: every
\* flag is 0 after init, a hit update sets the flag of its line, a miss update
\* clears the flag of its line, and no call changes the flag of another line;
\* GetVictimInSet changes no flag.
C18_ReusedMeansHit ==
    /\ \A s \in Sets : \A w \in Ways : repl_reused[s][w] = 0
    /\ [][\A s \in Sets : \A w \in Ways :
            repl_reused'[s][w] =
                IF last'.op = "init" THEN 0
                ELSE IF last'.op = "hit" /\ last'.set = s /\ last'.way = w THEN 1
                ELSE IF last'.op = "miss" /\ last'.set = s /\ last'.way = w THEN 0
                ELSE repl_reused[s][w]]_vars

\* C18 witness: a line hit since its install has stayed reused through a
\* GetVictimInSet that aged its set.
C18_Witness ==
    /\ last.op = "victim"
    /\ last.exit = "fallback"
    /\ \E w \in Ways : repl_reused[last.set][w] = 1

\* C20: when every miss update goes to the way the immediately preceding
\* GetVictimInSet returned for the same set, no miss update overwrites a line
\* whose rrpv is below MAX_RRPV.
C20_EvictsOnlyAtMax ==
    [][\A set \in Sets : \A way \in Ways :
         (MissStep /\ last'.set = set /\ last'.way = way) =>
            repl_rrpv[set][way] = MAX_RRPV]_vars

\* The highest rrpv of the row r.
RowMax(r) == CHOOSE m \in 0 .. MAX_RRPV :
                 /\ \E w \in Ways : r[w] = m
                 /\ \A w \in Ways : r[w] <= m

\* The amount C15 says a call adds to a row whose highest rrpv is m.
AgedBy(m) == IF m = MAX_RRPV THEN 0 ELSE IF m = MAX_RRPV - 1 THEN 1 ELSE 3

\* C15: GetVictimInSet returns after at most two aging passes, lowers no
\* rrpv, and leaves each line of its set at min(r + k, MAX_RRPV), r being the
\* line's rrpv at entry and k the same for the whole set: 0 if a line was at
\* MAX_RRPV at entry, 1 if the set's highest rrpv was MAX_RRPV - 1, else 3.
C15_VictimAging ==
    [][\A set \in Sets :
         (VictimStep /\ last'.set = set) =>
            LET r == repl_rrpv[set]
                k == AgedBy(RowMax(r))
            IN  /\ \A w \in Ways :
                      /\ repl_rrpv'[set][w] = Min(r[w] + k, MAX_RRPV)
                      /\ repl_rrpv'[set][w] >= r[w]
                /\ (k = 0) = (last'.exit = "scan" /\ repl_rrpv'[set] = r)
                /\ (k = 3) = (last'.exit = "fallback")]_vars

\* C15 witness: a call went through both passes and left some lines clamped
\* at MAX_RRPV and others below it.
C15_Witness ==
    /\ last.op = "victim"
    /\ last.exit = "fallback"
    /\ \E w \in Ways : repl_rrpv[last.set][w] = MAX_RRPV
    /\ \E w \in Ways : repl_rrpv[last.set][w] < MAX_RRPV

\* The positions of the PC bits the signature is made of: 4 .. 13.
SigBits == {i \in 0 .. 30 : /\ 2 ^ i >= 2 ^ SIGN_SHIFT
                            /\ 2 ^ i < (2 ^ SIGN_SHIFT) * SHCT_SIZE}

\* Bit i of a.
Bit(a, i) == (a \div (2 ^ i)) % 2

\* C16: the signature a miss stores for its PC is floor(PC / 2^SIGN_SHIFT)
\* mod SHCT_SIZE = floor(PC / 16) mod 1024; every stored line signature lies
\* in [0, SHCT_SIZE) in every reachable state; and any PC that agrees with
\* the miss's PC on bits 4..13 has the same signature.
C16_Signature ==
    /\ \A s \in Sets : \A w \in Ways :
          repl_sig[s][w] >= 0 /\ repl_sig[s][w] < SHCT_SIZE
    /\ (last.op = "miss") =>
          LET stored == repl_sig[last.set][last.way] IN
          /\ stored = (last.pc \div (2 ^ SIGN_SHIFT)) % SHCT_SIZE
          /\ stored = (last.pc \div 16) % 1024
          /\ \A q \in SigPCs :
                (\A i \in SigBits : Bit(q, i) = Bit(last.pc, i))
                    => Signature(q) = stored

\* C16 witness: a miss whose PC has bits set below and above the signature
\* field stored the highest signature, which another line of the set holds
\* too.
C16_Witness ==
    /\ last.op = "miss"
    /\ last.pc % (2 ^ SIGN_SHIFT) # 0
    /\ last.pc >= (2 ^ SIGN_SHIFT) * SHCT_SIZE
    /\ repl_sig[last.set][last.way] = SHCT_SIZE - 1
    /\ \E w \in Ways : w # last.way /\ repl_sig[last.set][w] = SHCT_SIZE - 1

\* C19: from every row of in-range rrpv values the baseline's GetVictimInSet
\* leaves its while loop, after at most MAX_RRPV aging passes; it has then
\* aged every line of the set by the same amount, MAX_RRPV minus the row's
\* highest rrpv at entry, and returns the lowest way at MAX_RRPV.
C19_BaselineVictim ==
    [][\A set \in Sets :
         (VictimStep /\ last'.set = set) =>
            LET r == repl_rrpv[set]
                k == MAX_RRPV - RowMax(r)
            IN  /\ last'.exit = "scan"
                /\ last'.passes <= MAX_RRPV
                /\ last'.passes = k
                /\ \A w \in Ways : repl_rrpv'[set][w] = r[w] + k
                /\ last'.ret \in Ways
                /\ repl_rrpv'[set][last'.ret] = MAX_RRPV
                /\ \A v \in Ways : v < last'.ret => repl_rrpv'[set][v] # MAX_RRPV]_vars

\* C19 witness: a baseline call took MAX_RRPV - 1 aging passes and returned
\* a way other than the first, leaving the ways before it below MAX_RRPV.
C19_Witness ==
    /\ last.op = "victim"
    /\ last.exit = "scan"
    /\ last.passes = MAX_RRPV - 1
    /\ last.ret > 0
    /\ repl_rrpv[last.set][0] < MAX_RRPV

====
